---- MODULE Spec2Model ----
(***************************************************************************)
(* A model of the useFetchOnScroll hook (src/useFetchOnScroll.ts): the     *)
(* trigger-index resolution done by every render, the memoised             *)
(* intersection handler fetchOnScroll, the two attachment handles itemRef  *)
(* and fallbackRef produced by useIntersectionObserver, and the            *)
(* IntersectionObserver instances they create.                             *)
(*                                                                         *)
(* Representation of JavaScript values:                                    *)
(*   - a value that may be a number, NaN or null is a record               *)
(*     [kind, val] (Num, NaN, Null);                                       *)
(*   - the optional prop triggerIndex may be fractional; it is kept in     *)
(*     halves: [given |-> TRUE, halves |-> h] is the number h/2, and       *)
(*     [given |-> FALSE, ...] is undefined;                                *)
(*   - a string that the code inspects (the data-id attribute) is a        *)
(*     sequence of one-character strings; strings the code only passes     *)
(*     through (threshold, rootMargin, function identities) are opaque.    *)
(*   - an observer is named by its position in the sequence observers;     *)
(*     0 in a ref cell is null.                                            *)
(***************************************************************************)
EXTENDS Integers, Sequences, FiniteSets, TLC

\* ------------------------------------------------------------------ bounds

\* numberOfItems ranges over 1..MaxItems in the specifications with observers
MaxItems == 3
\* numberOfItems ranges over 1..MaxResolveItems in SpecResolve
MaxResolveItems == 12
\* at most this many re-renders after the mount
MaxRenders == 1
\* IntersectionObserver instances created in a run of Spec
MaxObservers == 1
\* entries in a notification of Spec
MaxEntries == 1
\* IntersectionObserver instances created in a run of SpecHistory
MaxHistoryObservers == 2
\* IntersectionObserver instances created in a run of SpecLifecycle
MaxLifecycleObservers == 2
\* IntersectionObserver instances created in a run of SpecOptions
MaxOptionsObservers == 1
\* entries in a notification of SpecBatch
MaxBatchEntries == 2

\* ------------------------------------------------------- JavaScript values

Num(n) == [kind |-> "number", val |-> n]
NaN == [kind |-> "NaN", val |-> 0]
Null == [kind |-> "null", val |-> 0]

\* a === b for values that are numbers, NaN or null (NaN equals nothing)
StrictEq(a, b) ==
    \/ a.kind = "number" /\ b.kind = "number" /\ a.val = b.val
    \/ a.kind = "null" /\ b.kind = "null"

UndefinedIndex == [given |-> FALSE, halves |-> 0]
IndexOfHalves(h) == [given |-> TRUE, halves |-> h]

\* if (triggerIndex): undefined and 0 are falsy
TruthyAlways(ti) == ti.given
Truthy(ti) == ti.given /\ ti.halves # 0

\* Math.floor of a number kept in halves
FloorOfHalves(h) == h \div 2

\* !triggerPoint: only the empty string is falsy among strings
FalsyString(s) == s = ""

\* --------------------------------------------------------------- parseInt

DecimalDigits == <<"0", "1", "2", "3", "4", "5", "6", "7", "8", "9">>
HexDigits == DecimalDigits \o <<"a", "b", "c", "d", "e", "f">>

DigitsOf(radix) == IF radix = 16 THEN HexDigits ELSE DecimalDigits

IsDigit(c, radix) == \E i \in 1..Len(DigitsOf(radix)) : DigitsOf(radix)[i] = c

DigitValue(c, radix) ==
    (CHOOSE i \in 1..Len(DigitsOf(radix)) : DigitsOf(radix)[i] = c) - 1

RECURSIVE SkipWhiteSpace(_)
SkipWhiteSpace(s) ==
    IF s # <<>> /\ Head(s) = " " THEN SkipWhiteSpace(Tail(s)) ELSE s

\* the value of the longest prefix of digits of s, continuing from acc
RECURSIVE DigitsValue(_, _, _)
DigitsValue(s, radix, acc) ==
    IF s # <<>> /\ IsDigit(Head(s), radix)
    THEN DigitsValue(Tail(s), radix, acc * radix + DigitValue(Head(s), radix))
    ELSE acc

\* parseInt(string) with no radix argument: leading white space is skipped,
\* a sign is read, a 0x prefix selects radix 16, the longest prefix of digits
\* is the value, and no digit at all is NaN
ParseInt(str) ==
    LET s1 == SkipWhiteSpace(str)
        neg == s1 # <<>> /\ Head(s1) = "-"
        s2 == IF s1 # <<>> /\ Head(s1) \in {"-", "+"} THEN Tail(s1) ELSE s1
        hex == Len(s2) >= 2 /\ s2[1] = "0" /\ s2[2] = "x"
        radix == IF hex THEN 16 ELSE 10
        s3 == IF hex THEN Tail(Tail(s2)) ELSE s2
    IN  IF s3 = <<>> \/ ~IsDigit(Head(s3), radix)
        THEN NaN
        ELSE Num((IF neg THEN -1 ELSE 1) * DigitsValue(s3, radix, 0))

\* element.getAttribute("data-id") as string: the attribute's value, or null,
\* which parseInt reads as the string "null"
NoAttribute == [has |-> FALSE, value |-> <<>>]
Attribute(str) == [has |-> TRUE, value |-> str]
GetAttribute(attr) == IF attr.has THEN attr.value ELSE <<"n", "u", "l", "l">>

\* the decimal string of a natural number, as markup would write an index
RECURSIVE IndexString(_)
IndexString(n) ==
    IF n < 10 THEN <<DecimalDigits[n + 1]>>
    ELSE IndexString(n \div 10) \o <<DecimalDigits[(n % 10) + 1]>>

\* ------------------------------------------------- trigger-index resolver

TriggerPoints == {"50%", "75%", "100%"}

getTriggerPointValueOffByOne(triggerPoint, numberOfItems) ==
    CASE triggerPoint = "50%" -> (numberOfItems * 5) \div 10
      [] triggerPoint = "75%" -> (numberOfItems * 75) \div 100
      [] triggerPoint = "100%" -> numberOfItems

getTriggerPointValueRounded(triggerPoint, numberOfItems) ==
    CASE triggerPoint = "50%" -> (numberOfItems * 5 + 5) \div 10
      [] triggerPoint = "75%" -> (numberOfItems * 75 + 50) \div 100
      [] triggerPoint = "100%" -> numberOfItems - 1

\* Math.floor(numberOfItems * 0.5), Math.floor(numberOfItems * 0.75) (both
\* products are exact in binary floating point), numberOfItems - 1
getTriggerPointValue(triggerPoint, numberOfItems) ==
    CASE triggerPoint = "50%" -> (numberOfItems * 5) \div 10
      [] triggerPoint = "75%" -> (numberOfItems * 75) \div 100
      [] triggerPoint = "100%" -> numberOfItems - 1

fallBackRefIndexAsItemCount(p) == p.numberOfItems

\* const fallBackRefIndex = numberOfItems - 1
fallBackRefIndexOf(p) == p.numberOfItems - 1

itemRefIndexZeroIsTruthy(p) ==
    IF TruthyAlways(p.triggerIndex)
    THEN FloorOfHalves(p.triggerIndex.halves)
    ELSE getTriggerPointValue(p.triggerPoint, p.numberOfItems)

\* let itemRefIndex = useMemo(...); if (triggerIndex) itemRefIndex = floor(...)
itemRefIndexOf(p) ==
    IF Truthy(p.triggerIndex)
    THEN FloorOfHalves(p.triggerIndex.halves)
    ELSE getTriggerPointValue(p.triggerPoint, p.numberOfItems)

\* the ref cell the render binds ItemObserver to: fallbackObserver's cell when
\* the collapse condition holds, its own cell otherwise
ItemObserverOf(p) ==
    IF \/ p.triggerPoint = "100%"
       \/ (p.triggerIndex.given /\ p.triggerIndex.halves = 2 * fallBackRefIndexOf(p))
       \/ (FalsyString(p.triggerPoint) /\ ~Truthy(p.triggerIndex))
    THEN "fallbackObserver"
    ELSE "ItemObserver"

\* ------------------------------------------------------ data-id attributes

\* the decimal index of an item, as the markup of an item carries it
IndexIds == {Attribute(IndexString(i)) : i \in 0..(MaxItems - 1)}

\* data-id attributes of notified elements: the decimal index of an item, no
\* attribute at all, and an index followed by a unit
DataIds == IndexIds \cup {NoAttribute, Attribute(<<"1", "p", "x">>)}

\* parseInt(getAttribute("data-id")) of every element that is notified
ParsedDataIds == [attr \in DataIds |-> ParseInt(GetAttribute(attr))]

\* ------------------------------------------------------------------ state

VARIABLES
    props,            \* the options of the latest render
    mounted,          \* the consuming view is mounted
    observerRefs,     \* .current of the useRef cells ItemObserver, fallbackObserver
    lastItemIndex,    \* lastItemIndex.current
    fetchOnScroll,    \* the memoised handler: the values its closure captured
    itemRef,          \* the memoised handle returned as itemRef
    fallbackRef,      \* the memoised handle returned as fallbackRef
    observers,        \* every IntersectionObserver created so far
    renders,          \* re-renders so far
    last,             \* the latest operation: its input and its calls of fetchNext
    handled,          \* history: parsed ids of the intersecting first entries handled
    firedInPage       \* history: the primary branch fired since numberOfItems last changed

vars == <<props, mounted, observerRefs, lastItemIndex, fetchOnScroll, itemRef,
          fallbackRef, observers, renders, last, handled, firedInPage>>

NullNode == "null"
NoEntries == <<>>

Op(name) ==
    [op |-> name, handle |-> "", node |-> NullNode, observer |-> 0,
     released |-> 0, entries |-> NoEntries, calls |-> 0]

\* -------------------------------------------------------------- rendering

\* useCallback(fetchOnScroll, [fetchNext, fetchMore, itemRefIndex,
\* fallBackRefIndex]): the closure captures exactly its dependencies, so the
\* memoised function is determined by their values
fetchOnScrollOf(p) ==
    [fetchNext |-> p.fetchNext, fetchMore |-> p.fetchMore,
     itemRefIndex |-> itemRefIndexOf(p), fallBackRefIndex |-> fallBackRefIndexOf(p)]

\* the function (node) => {...} that a render creates: it captures the ref
\* cell, the handler, and the render's threshold and rootMargin
NewHandle(observerRef, iOCallback, p) ==
    [observerRef |-> observerRef, iOCallback |-> iOCallback,
     threshold |-> p.threshold, rootMargin |-> p.rootMargin]

\* useCallback(..., [observerRef, iOCallback]): the previous function, with the
\* threshold and rootMargin it captured, is kept while both dependencies are
\* unchanged
useIntersectionObserver(prev, observerRef, iOCallback, p) ==
    IF prev.observerRef = observerRef /\ prev.iOCallback = iOCallback
    THEN prev
    ELSE NewHandle(observerRef, iOCallback, p)

\* the first render of a mounted hook
Mount(p) ==
    /\ props = p
    /\ mounted = TRUE
    /\ observerRefs = [ItemObserver |-> 0, fallbackObserver |-> 0]
    /\ lastItemIndex = Null
    /\ fetchOnScroll = fetchOnScrollOf(p)
    /\ itemRef = NewHandle(ItemObserverOf(p), fetchOnScrollOf(p), p)
    /\ fallbackRef = NewHandle("fallbackObserver", fetchOnScrollOf(p), p)
    /\ observers = <<>>
    /\ renders = 0
    /\ last = Op("mount")
    /\ handled = {}
    /\ firedInPage = FALSE

\* a re-render with options p: the body of useFetchOnScroll
Render(p) ==
    /\ mounted
    /\ props' = p
    /\ fetchOnScroll' = fetchOnScrollOf(p)
    /\ itemRef' = useIntersectionObserver(itemRef, ItemObserverOf(p), fetchOnScrollOf(p), p)
    /\ fallbackRef' = useIntersectionObserver(fallbackRef, "fallbackObserver", fetchOnScrollOf(p), p)
    /\ renders' = renders + 1
    /\ last' = Op("render")
    /\ UNCHANGED <<mounted, observerRefs, lastItemIndex, observers>>

\* ------------------------------------------------------------- attachment

\* observer.disconnect(): the observer watches nothing any more
Disconnect(obs, id) == [obs EXCEPT ![id].observed = {}]

ReleasePriorNever(obs, current) == obs

\* if (observerRef.current) observerRef.current.disconnect()
ReleasePrior(obs, current) ==
    IF current # 0 THEN Disconnect(obs, current) ELSE obs

\* new IntersectionObserver(iOCallback, {threshold, rootMargin}), then
\* observer.observe(node); node keeps the element it was created for and ref
\* is the cell the observer is stored in
NewObserver(handle, node) ==
    [callback |-> handle.iOCallback, threshold |-> handle.threshold,
     rootMargin |-> handle.rootMargin, observed |-> {node},
     node |-> node, ref |-> handle.observerRef]

\* the observer id current if it is still watching an element, 0 otherwise
WatchingOrNone(obs, current) ==
    IF current # 0 /\ obs[current].observed # {} THEN current ELSE 0

HandleNamed(h) == IF h = "itemRef" THEN itemRef ELSE fallbackRef

AttachWithoutNullCheck(h, node) ==
    /\ mounted
    /\ LET handle == HandleNamed(h)
           released == ReleasePrior(observers, observerRefs[handle.observerRef])
       IN  /\ observers' = Append(released, NewObserver(handle, node))
           /\ observerRefs' = [observerRefs EXCEPT
                                 ![handle.observerRef] = Len(observers) + 1]
           /\ last' = [Op("attach") EXCEPT
                         !.handle = h, !.node = node,
                         !.observer = Len(observers) + 1,
                         !.released = WatchingOrNone(observers, observerRefs[handle.observerRef])]
    /\ UNCHANGED <<props, mounted, lastItemIndex, fetchOnScroll, itemRef,
                   fallbackRef, renders>>

AttachWithoutStoring(h, node) ==
    /\ mounted
    /\ IF node = NullNode
       THEN /\ last' = [Op("attach") EXCEPT !.handle = h]
            /\ UNCHANGED <<observerRefs, observers>>
       ELSE LET handle == HandleNamed(h)
                released == ReleasePrior(observers, observerRefs[handle.observerRef])
            IN  /\ observers' = Append(released, NewObserver(handle, node))
                /\ observerRefs' = observerRefs
                /\ last' = [Op("attach") EXCEPT
                              !.handle = h, !.node = node,
                              !.observer = Len(observers) + 1,
                              !.released = WatchingOrNone(observers, observerRefs[handle.observerRef])]
    /\ UNCHANGED <<props, mounted, lastItemIndex, fetchOnScroll, itemRef,
                   fallbackRef, renders>>

\* the host calls the handle h of the latest render with node
Attach(h, node) ==
    /\ mounted
    /\ IF node = NullNode
       THEN /\ last' = [Op("attach") EXCEPT !.handle = h]
            /\ UNCHANGED <<observerRefs, observers>>
       ELSE LET handle == HandleNamed(h)
                released == ReleasePrior(observers, observerRefs[handle.observerRef])
            IN  /\ observers' = Append(released, NewObserver(handle, node))
                /\ observerRefs' = [observerRefs EXCEPT
                                      ![handle.observerRef] = Len(observers) + 1]
                /\ last' = [Op("attach") EXCEPT
                              !.handle = h, !.node = node,
                              !.observer = Len(observers) + 1,
                              !.released = WatchingOrNone(observers, observerRefs[handle.observerRef])]
    /\ UNCHANGED <<props, mounted, lastItemIndex, fetchOnScroll, itemRef,
                   fallbackRef, renders>>

CleanupClearingCell(id) ==
    /\ id \in 1..Len(observers)
    /\ observers' = ReleasePrior(observers, observerRefs[observers[id].ref])
    /\ observerRefs' = [observerRefs EXCEPT ![observers[id].ref] = 0]
    /\ last' = [Op("cleanup") EXCEPT !.observer = id]
    /\ UNCHANGED <<props, mounted, lastItemIndex, fetchOnScroll,
                   itemRef, fallbackRef, renders>>

\* the host calls the cleanup function that the attachment which created
\* observer id returned: if (observerRef.current) observerRef.current.disconnect()
Cleanup(id) ==
    /\ id \in 1..Len(observers)
    /\ observers' = ReleasePrior(observers, observerRefs[observers[id].ref])
    /\ last' = [Op("cleanup") EXCEPT !.observer = id]
    /\ UNCHANGED <<props, mounted, observerRefs, lastItemIndex, fetchOnScroll,
                   itemRef, fallbackRef, renders>>

\* the consuming view unmounts: the hook registers no effect, so nothing of
\* its state changes
Unmount ==
    /\ mounted
    /\ mounted' = FALSE
    /\ last' = Op("unmount")
    /\ UNCHANGED <<props, observerRefs, lastItemIndex, fetchOnScroll, itemRef,
                   fallbackRef, observers, renders>>

\* ---------------------------------------------------------------- handler

ReactsIgnoringFetchMore(entry, cb) == entry.isIntersecting

\* entries[0].isIntersecting && fetchMore
Reacts(entry, cb) == entry.isIntersecting /\ cb.fetchMore

EntryIdNaNAsZero(entry) ==
    IF ParsedDataIds[entry.target].kind = "NaN" THEN Num(0)
    ELSE ParsedDataIds[entry.target]

\* parseInt(entries[0].target.getAttribute("data-id") as string)
EntryId(entry) == ParsedDataIds[entry.target]

\* entryId === itemRefIndex
PrimaryBranch(entryId, cb) == StrictEq(entryId, Num(cb.itemRefIndex))

FallbackBranchUnguarded(entryId, cb, lastFired) ==
    StrictEq(entryId, Num(cb.fallBackRefIndex))

FallbackBranchNever(entryId, cb, lastFired) == FALSE

\* entryId === fallBackRefIndex && lastItemIndex.current !== itemRefIndex
FallbackBranch(entryId, cb, lastFired) ==
    /\ StrictEq(entryId, Num(cb.fallBackRefIndex))
    /\ ~StrictEq(lastFired, Num(cb.itemRefIndex))

fetchOnScrollCallOnLastEntry(cb, entries, lastFired) ==
    IF Len(entries) = 0
    THEN [lastItemIndex |-> lastFired, calls |-> 0]
    ELSE IF Reacts(entries[Len(entries)], cb)
    THEN LET entryId == EntryId(entries[Len(entries)])
             primary == PrimaryBranch(entryId, cb)
             recorded == IF primary THEN entryId ELSE lastFired
             fallback == FallbackBranch(entryId, cb, recorded)
         IN  [lastItemIndex |-> recorded,
              calls |-> (IF primary THEN 1 ELSE 0) + (IF fallback THEN 1 ELSE 0)]
    ELSE [lastItemIndex |-> lastFired, calls |-> 0]

fetchOnScrollCallEmptyFetches(cb, entries, lastFired) ==
    IF Len(entries) = 0
    THEN [lastItemIndex |-> lastFired, calls |-> IF cb.fetchMore THEN 1 ELSE 0]
    ELSE IF Reacts(entries[1], cb)
    THEN LET entryId == EntryId(entries[1])
             primary == PrimaryBranch(entryId, cb)
             recorded == IF primary THEN entryId ELSE lastFired
             fallback == FallbackBranch(entryId, cb, recorded)
         IN  [lastItemIndex |-> recorded,
              calls |-> (IF primary THEN 1 ELSE 0) + (IF fallback THEN 1 ELSE 0)]
    ELSE [lastItemIndex |-> lastFired, calls |-> 0]

\* what one call of the handler cb does: the new lastItemIndex.current and the
\* number of times it calls fetchNext
fetchOnScrollCall(cb, entries, lastFired) ==
    IF Len(entries) = 0
    THEN [lastItemIndex |-> lastFired, calls |-> 0]
    ELSE IF Reacts(entries[1], cb)
    THEN LET entryId == EntryId(entries[1])
             primary == PrimaryBranch(entryId, cb)
             recorded == IF primary THEN entryId ELSE lastFired
             fallback == FallbackBranch(entryId, cb, recorded)
         IN  [lastItemIndex |-> recorded,
              calls |-> (IF primary THEN 1 ELSE 0) + (IF fallback THEN 1 ELSE 0)]
    ELSE [lastItemIndex |-> lastFired, calls |-> 0]

\* the runtime delivers entries to the callback of observer id, which is
\* still watching an element
Notify(id, entries) ==
    /\ id \in 1..Len(observers)
    /\ observers[id].observed # {}
    /\ LET r == fetchOnScrollCall(observers[id].callback, entries, lastItemIndex)
       IN  /\ lastItemIndex' = r.lastItemIndex
           /\ last' = [Op("notify") EXCEPT !.observer = id, !.entries = entries,
                                           !.calls = r.calls]
    /\ UNCHANGED <<props, mounted, observerRefs, fetchOnScroll, itemRef,
                   fallbackRef, observers, renders>>

\* -------------------------------------------------------- reading a state

\* the handler that the latest notification ran: the callback of its observer
LastHandler == observers[last.observer].callback

Notified == last.op = "notify"

\* the latest operation was a notification with a first entry
NotifiedEntry == Notified /\ Len(last.entries) > 0

LastEntryId == EntryId(last.entries[1])

\* the observers that still watch an element
Watching == {id \in 1..Len(observers) : observers[id].observed # {}}

\* the ref cells of the hook
Cells == {"ItemObserver", "fallbackObserver"}

\* the state of a slot, read from its ref cell: no observer stored yet, an
\* observer that watches an element, or an observer that was disconnected
SlotState(refs, obs, cell) ==
    IF refs[cell] = 0 THEN "UNATTACHED"
    ELSE IF obs[refs[cell]].observed # {} THEN "WATCHING"
    ELSE "RELEASED"

\* ---------------------------------------------------------------- history

\* the history variables are not kept
NoHistory == UNCHANGED <<handled, firedInPage>>

\* the step just taken ran the primary branch of some handler
PrimaryFired ==
    /\ last'.op = "notify"
    /\ Len(last'.entries) > 0
    /\ LET cb == observers[last'.observer].callback
       IN  /\ Reacts(last'.entries[1], cb)
           /\ PrimaryBranch(EntryId(last'.entries[1]), cb)

\* the history variables record the step that the action before it has taken
History ==
    /\ handled' =
         IF /\ last'.op = "notify"
            /\ Len(last'.entries) > 0
            /\ last'.entries[1].isIntersecting
            /\ EntryId(last'.entries[1]).kind = "number"
         THEN handled \cup {EntryId(last'.entries[1]).val}
         ELSE handled
    /\ firedInPage' =
         IF last'.op = "render"
         THEN firedInPage /\ props'.numberOfItems = props.numberOfItems
         ELSE firedInPage \/ PrimaryFired

\* ---------------------------------------------------------- input domains

\* triggerIndex values of the handler specification: undefined and 1
TriggerIndexes == {UndefinedIndex, IndexOfHalves(2)}

\* triggerIndex values of the resolver specification: undefined and every
\* multiple of 1/2 from -1.5 to beyond the last index
ResolveTriggerIndexes ==
    {UndefinedIndex} \cup {IndexOfHalves(h) : h \in -3..(2 * MaxResolveItems + 3)}

PropsOver(items, triggerIndexes, fetchMores, fetchNexts, thresholds, rootMargins) ==
    [fetchNext : fetchNexts, fetchMore : fetchMores, numberOfItems : items,
     threshold : thresholds, rootMargin : rootMargins,
     triggerPoint : TriggerPoints, triggerIndex : triggerIndexes]

\* the entries of one notification: an observer watches one element with one
\* threshold, so every entry of a batch has that element as its target and the
\* element alternately enters and leaves the viewport
RECURSIVE Batch(_, _, _)
Batch(target, isIntersecting, n) ==
    IF n = 0 THEN <<>>
    ELSE <<[isIntersecting |-> isIntersecting, target |-> target]>>
           \o Batch(target, ~isIntersecting, n - 1)

Batches ==
    {Batch(target, i, n) : target \in DataIds, i \in BOOLEAN, n \in 0..MaxEntries}

\* one intersecting entry for an element that carries an item's index
IndexBatches == {Batch(target, TRUE, 1) : target \in IndexIds}

\* --------------------------------------------------------- specifications

\* what bounds a run: the re-renders and the observers created
MayRender == renders < MaxRenders
MayObserve(limit) == Len(observers) < limit

Handles == {"itemRef", "fallbackRef"}

\* Spec: the handler under every trigger form, page size and fetchMore, with
\* every batch of entries; a re-render changes the page size
HandlerProps ==
    PropsOver(1..MaxItems, TriggerIndexes, BOOLEAN, {"fetchNextA"},
              {"undefined"}, {"undefined"})

Init == \E p \in HandlerProps : Mount(p)

Next ==
    \/ \E n \in 1..MaxItems :
          /\ MayRender
          /\ Render([props EXCEPT !.numberOfItems = n])
          /\ NoHistory
    \/ \E h \in Handles :
          MayObserve(MaxObservers) /\ Attach(h, "div1") /\ NoHistory
    \/ \E id \in 1..MaxObservers, entries \in Batches :
          Notify(id, entries) /\ NoHistory

Spec == Init /\ [][Next]_vars

\* SpecHistory: the handler with fetchMore true under every triggerPoint and
\* page size, with the history variables kept and one-entry batches for the
\* elements that carry an item's index
HistoryProps ==
    PropsOver(1..MaxItems, {UndefinedIndex}, {TRUE}, {"fetchNextA"},
              {"undefined"}, {"undefined"})

InitHistory == \E p \in HistoryProps : Mount(p)

NextHistory ==
    \/ \E n \in 1..MaxItems :
          /\ MayRender
          /\ Render([props EXCEPT !.numberOfItems = n])
          /\ History
    \/ \E h \in Handles :
          MayObserve(MaxHistoryObservers) /\ Attach(h, "div1") /\ History
    \/ \E id \in 1..MaxHistoryObservers, entries \in IndexBatches :
          Notify(id, entries) /\ History

SpecHistory == InitHistory /\ [][NextHistory]_vars

\* SpecResolve: the resolution of the trigger index, for every page size up
\* to MaxResolveItems and every trigger form; a re-render changes the page size
ResolveProps ==
    PropsOver(1..MaxResolveItems, ResolveTriggerIndexes, {TRUE}, {"fetchNextA"},
              {"undefined"}, {"undefined"})

InitResolve == \E p \in ResolveProps : Mount(p)

NextResolve ==
    \E n \in 1..MaxResolveItems :
       MayRender /\ Render([props EXCEPT !.numberOfItems = n]) /\ NoHistory

SpecResolve == InitResolve /\ [][NextResolve]_vars

\* SpecLifecycle: the observers under attachment, reattachment, cleanup and
\* unmount, for every trigger form; a re-render changes the page size
Nodes == {"div1", "div2"}

LifecycleProps ==
    PropsOver(1..MaxItems, TriggerIndexes, {TRUE}, {"fetchNextA"},
              {"undefined"}, {"undefined"})

InitLifecycle == \E p \in LifecycleProps : Mount(p)

NextLifecycle ==
    \/ \E n \in 1..MaxItems :
          /\ MayRender
          /\ Render([props EXCEPT !.numberOfItems = n])
          /\ NoHistory
    \/ \E h \in Handles, node \in Nodes :
          MayObserve(MaxLifecycleObservers) /\ Attach(h, node) /\ NoHistory
    \/ \E h \in Handles : Attach(h, NullNode) /\ NoHistory
    \/ \E id \in 1..MaxLifecycleObservers : Cleanup(id) /\ NoHistory
    \/ Unmount /\ NoHistory

SpecLifecycle == InitLifecycle /\ [][NextLifecycle]_vars

\* SpecOptions: the options an observer is constructed with; a re-render
\* changes threshold, rootMargin or the identity of fetchNext
Thresholds == {"undefined", "0.5"}
RootMargins == {"undefined", "10px"}
FetchNexts == {"fetchNextA", "fetchNextB"}

OptionsProps ==
    PropsOver({MaxItems}, {UndefinedIndex}, {TRUE}, {"fetchNextA"},
              Thresholds, RootMargins)

InitOptions == \E p \in OptionsProps : Mount(p)

NextOptions ==
    \/ \E f \in FetchNexts, t \in Thresholds, r \in RootMargins :
          /\ MayRender
          /\ Render([props EXCEPT !.fetchNext = f, !.threshold = t, !.rootMargin = r])
          /\ NoHistory
    \/ \E h \in Handles, node \in Nodes :
          MayObserve(MaxOptionsObservers) /\ Attach(h, node) /\ NoHistory

SpecOptions == InitOptions /\ [][NextOptions]_vars

\* SpecBatch: one observer of a page of MaxItems items and the notifications
\* it delivers, with batches of up to MaxBatchEntries entries: the first entry
\* is entering or leaving, the later ones are entering, and the targets of
\* the entries are independent of each other
BatchTargets == IndexIds \cup {NoAttribute}

Entering == [isIntersecting : {TRUE}, target : BatchTargets]

FirstEntries == [isIntersecting : BOOLEAN, target : BatchTargets]

EntryBatches ==
    {NoEntries} \cup
    {<<first>> \o later : first \in FirstEntries,
                          later \in UNION {[1..n -> Entering] : n \in 0..(MaxBatchEntries - 1)}}

BatchProps ==
    PropsOver({MaxItems}, TriggerIndexes, BOOLEAN, {"fetchNextA"},
              {"undefined"}, {"undefined"})

InitBatch == \E p \in BatchProps : Mount(p)

NextBatch ==
    \/ \E h \in Handles : observers = <<>> /\ Attach(h, "div1") /\ NoHistory
    \/ \E entries \in EntryBatches : Notify(1, entries) /\ NoHistory

SpecBatch == InitBatch /\ [][NextBatch]_vars

\* ----------------------------------------------------------------- claims

\* what the claims read of the latest notification
EnteredAt(index) ==
    /\ NotifiedEntry
    /\ last.entries[1].isIntersecting
    /\ StrictEq(LastEntryId, Num(index))

\* C1: a notification whose first entry is intersecting and whose data-id
\* parses to the handler's itemRefIndex, handled by a handler whose fetchMore
\* is true, records that index in lastItemIndex and calls fetchNext exactly
\* once, also when itemRefIndex equals fallBackRefIndex.
C1_PrimaryFiresExactlyOnce ==
    (EnteredAt(LastHandler.itemRefIndex) /\ LastHandler.fetchMore)
      => /\ last.calls = 1
         /\ lastItemIndex = Num(LastHandler.itemRefIndex)

\* C1, reached: the primary index is also the fallback index, the entry
\* entered at it, and fetchNext was called once.
C1_Witness ==
    /\ EnteredAt(LastHandler.itemRefIndex)
    /\ LastHandler.fetchMore
    /\ LastHandler.itemRefIndex = LastHandler.fallBackRefIndex
    /\ last.calls = 1

\* C2: when itemRefIndex differs from fallBackRefIndex and no intersecting
\* entry at itemRefIndex has been handled since the mount, an intersecting
\* entry at fallBackRefIndex handled with fetchMore true calls fetchNext
\* exactly once.
C2_FallbackSafetyNet ==
    (/\ EnteredAt(LastHandler.fallBackRefIndex)
     /\ LastHandler.fetchMore
     /\ LastHandler.itemRefIndex # LastHandler.fallBackRefIndex
     /\ LastHandler.itemRefIndex \notin handled)
      => last.calls = 1

\* C2, reached: the fallback fired although the primary index was never
\* intersected.
C2_Witness ==
    /\ EnteredAt(LastHandler.fallBackRefIndex)
    /\ LastHandler.fetchMore
    /\ LastHandler.itemRefIndex # LastHandler.fallBackRefIndex
    /\ LastHandler.itemRefIndex \notin handled
    /\ last.calls = 1
    /\ lastItemIndex = Null

\* C3: a notification handled by a handler whose fetchMore is false never
\* calls fetchNext and leaves lastItemIndex as it was, whatever the entry.
C3_NoFetchWhenFetchMoreFalse ==
    [][(last'.op = "notify" /\ ~observers[last'.observer].callback.fetchMore)
         => (last'.calls = 0 /\ lastItemIndex' = lastItemIndex)]_vars

\* C3, reached: with fetchMore false an entry entered at the primary index
\* and fetchNext was not called.
C3_Witness ==
    /\ EnteredAt(LastHandler.itemRefIndex)
    /\ ~LastHandler.fetchMore
    /\ ~props.fetchMore
    /\ last.calls = 0

\* C4: after the primary branch has fired and numberOfItems has changed, an
\* intersecting entry at the new fallBackRefIndex, handled by the handler of
\* the new render with fetchMore true and with no primary firing since the
\* change, calls fetchNext.
C4_FallbackFiresOnLaterPage ==
    (/\ EnteredAt(fetchOnScroll.fallBackRefIndex)
     /\ LastHandler = fetchOnScroll
     /\ fetchOnScroll.fetchMore
     /\ lastItemIndex # Null
     /\ ~firedInPage)
      => last.calls >= 1

\* C5: once the view is unmounted no observer is still watching an element.
C5_UnmountDisconnectsAll == ~mounted => Watching = {}

\* C6: at most one observer created through a ref cell is watching at any
\* time, and an observer watches at most one element: an attachment to a cell
\* whose observer is watching disconnects that observer.
C6_OneWatchPerSlot ==
    /\ \A cell \in {"ItemObserver", "fallbackObserver"} :
          Cardinality({id \in Watching : observers[id].ref = cell}) <= 1
    /\ \A id \in 1..Len(observers) : Cardinality(observers[id].observed) <= 1
    /\ (last.op = "attach" /\ last.released # 0)
         => observers[last.released].observed = {}

\* C6, reached: a different element was attached to a cell whose observer was
\* watching; the earlier observer is disconnected and the new one watches.
C6_Witness ==
    /\ last.op = "attach"
    /\ last.released # 0
    /\ observers[last.released].node # last.node
    /\ observers[last.released].ref = observers[last.observer].ref
    /\ observers[last.released].observed = {}
    /\ observers[last.observer].observed = {last.node}

\* C7: an observer is constructed with the threshold and rootMargin of the
\* latest render.
C7_ObserverUsesCurrentOptions ==
    (last.op = "attach" /\ last.observer # 0)
      => /\ observers[last.observer].threshold = props.threshold
         /\ observers[last.observer].rootMargin = props.rootMargin

\* C8: with no truthy triggerIndex the resolved itemRefIndex is
\* floor(N * 0.5) for "50%", floor(N * 0.75) for "75%" and N - 1 for "100%";
\* N = 10 gives 5, 7 and 9.
C8_TriggerPointResolution ==
    ~Truthy(props.triggerIndex) =>
      LET N == props.numberOfItems
          i == fetchOnScroll.itemRefIndex
      IN  /\ props.triggerPoint = "50%" => (2 * i <= N /\ N < 2 * (i + 1))
          /\ props.triggerPoint = "75%" => (4 * i <= 3 * N /\ 3 * N < 4 * (i + 1))
          /\ props.triggerPoint = "100%" => i = N - 1
          /\ N = 10 => i = (CASE props.triggerPoint = "50%" -> 5
                              [] props.triggerPoint = "75%" -> 7
                              [] props.triggerPoint = "100%" -> 9)

\* C8, reached: a render with ten items and "75%" resolved index 7.
C8_Witness ==
    /\ last.op = "render"
    /\ ~Truthy(props.triggerIndex)
    /\ props.numberOfItems = 10
    /\ props.triggerPoint = "75%"
    /\ fetchOnScroll.itemRefIndex = 7

\* C9: a truthy triggerIndex resolves itemRefIndex to floor(triggerIndex)
\* whatever triggerPoint is, with no clamping; a triggerIndex that is 0 or
\* absent resolves it from triggerPoint alone.
C9_TriggerIndexOverride ==
    LET i == fetchOnScroll.itemRefIndex
        h == props.triggerIndex.halves
    IN  /\ (props.triggerIndex.given /\ h # 0) => (2 * i <= h /\ h < 2 * (i + 1))
        /\ (~props.triggerIndex.given \/ h = 0)
             => i = getTriggerPointValue(props.triggerPoint, props.numberOfItems)

\* C9, reached: triggerIndex 12.5 with three items and "50%" resolved to 12,
\* beyond the last index.
C9_Witness ==
    /\ last.op = "render"
    /\ props.triggerIndex = IndexOfHalves(25)
    /\ props.numberOfItems = 3
    /\ props.triggerPoint = "50%"
    /\ fetchOnScroll.itemRefIndex = 12

\* C10 as stated: for any numberOfItems, triggerPoint and triggerIndex the
\* resolved itemRefIndex is a valid index, 0 <= itemRefIndex <= N - 1.
C10_AlwaysValidIndex ==
    /\ 0 <= fetchOnScroll.itemRefIndex
    /\ fetchOnScroll.itemRefIndex <= props.numberOfItems - 1

\* C10 amended: with triggerIndex absent or 0 the resolved itemRefIndex is a
\* valid index; a truthy triggerIndex is used unclamped, so the resolved index
\* is valid exactly when 0 <= triggerIndex < numberOfItems.
C10_ValidIndexUnlessOverridden ==
    LET N == props.numberOfItems
        i == fetchOnScroll.itemRefIndex
        h == props.triggerIndex.halves
    IN  IF Truthy(props.triggerIndex)
        THEN (0 <= i /\ i <= N - 1) <=> (0 <= h /\ h < 2 * N)
        ELSE 0 <= i /\ i <= N - 1

\* C10, reached: one item with "75%" resolved to index 0, the only valid one.
C10_Witness ==
    /\ last.op = "render"
    /\ ~Truthy(props.triggerIndex)
    /\ props.numberOfItems = 1
    /\ props.triggerPoint = "75%"
    /\ fetchOnScroll.itemRefIndex = 0

\* C11: calling itemRef or fallbackRef with null is a no-op: no observer is
\* created (so no cleanup function is returned), no observer is disconnected,
\* the ref cells and lastItemIndex keep their contents and fetchNext is not
\* called.
C11_NullAttachIsNoOp ==
    [][(last'.op = "attach" /\ last'.node = NullNode)
         => /\ last'.observer = 0
            /\ last'.released = 0
            /\ last'.calls = 0
            /\ UNCHANGED <<observers, observerRefs, lastItemIndex, props,
                           fetchOnScroll, itemRef, fallbackRef>>]_vars

\* C11, reached: a handle was called with null while the observer of its ref
\* cell was watching an element, and that observer still watches it.
C11_Witness ==
    /\ last.op = "attach"
    /\ last.node = NullNode
    /\ LET current == observerRefs[HandleNamed(last.handle).observerRef]
       IN  /\ current # 0
           /\ observers[current].observed = {observers[current].node}

\* C12: in every render fallBackRefIndex is numberOfItems - 1, whatever
\* triggerPoint and triggerIndex are; with ten items, triggerPoint left at its
\* default "100%" and no triggerIndex, itemRefIndex and fallBackRefIndex are
\* both 9.
C12_FallbackIndexIsLast ==
    /\ fetchOnScroll.fallBackRefIndex = props.numberOfItems - 1
    /\ (/\ props.numberOfItems = 10
        /\ props.triggerPoint = "100%"
        /\ props.triggerIndex = UndefinedIndex)
         => /\ fetchOnScroll.itemRefIndex = 9
            /\ fetchOnScroll.fallBackRefIndex = 9

\* C12, reached: a re-render to ten items under "50%" and triggerIndex 3 has
\* fallBackRefIndex 9 while itemRefIndex is 3.
C12_Witness ==
    /\ last.op = "render"
    /\ props.numberOfItems = 10
    /\ props.triggerPoint = "50%"
    /\ props.triggerIndex = IndexOfHalves(6)
    /\ fetchOnScroll.itemRefIndex = 3
    /\ fetchOnScroll.fallBackRefIndex = 9

\* C13: whenever the resolved itemRefIndex equals fallBackRefIndex, the
\* handles itemRef and fallbackRef are bound to the same ref cell, for every
\* numberOfItems and trigger form that yields equal indices.
C13_EqualIndicesShareOwner ==
    (fetchOnScroll.itemRefIndex = fetchOnScroll.fallBackRefIndex)
      => itemRef.observerRef = fallbackRef.observerRef

\* C14: in a render whose itemRefIndex differs from fallBackRefIndex, also
\* when itemRefIndex comes from a truthy triggerIndex under the default
\* triggerPoint, attaching an element through one handle does not disconnect
\* the observer that the other handle has just created: both elements are
\* watched afterwards.
C14_DistinctIndicesIndependentOwners ==
    [][(/\ fetchOnScroll.itemRefIndex # fetchOnScroll.fallBackRefIndex
        /\ last.op = "attach" /\ last.observer # 0
        /\ last'.op = "attach" /\ last'.observer # 0
        /\ last'.handle # last.handle)
         => /\ observers'[last.observer].observed # {}
            /\ observers'[last'.observer].observed # {}]_vars

\* C15: fetchNext is called only by a notification whose first entry is
\* intersecting, handled with fetchMore true, with a data-id that parses to
\* the handler's itemRefIndex or fallBackRefIndex; a notification whose first
\* entry is leaving, or whose data-id does not parse to a number, or parses to
\* neither index, calls fetchNext zero times and leaves lastItemIndex as it
\* was. No other operation calls fetchNext.
C15_FetchOnlyOnMatchingEntry ==
    [][LET cb == observers[last'.observer].callback
           entry == last'.entries[1]
           parsed == ParsedDataIds[entry.target]
           matches == \/ StrictEq(parsed, Num(cb.itemRefIndex))
                      \/ StrictEq(parsed, Num(cb.fallBackRefIndex))
       IN  /\ last'.calls > 0
                => /\ last'.op = "notify"
                   /\ Len(last'.entries) > 0
                   /\ entry.isIntersecting
                   /\ cb.fetchMore
                   /\ matches
           /\ (/\ last'.op = "notify"
               /\ Len(last'.entries) > 0
               /\ (~entry.isIntersecting \/ parsed.kind = "NaN" \/ ~matches))
                => /\ last'.calls = 0
                   /\ lastItemIndex' = lastItemIndex]_vars

\* C15, reached: with fetchMore true and a primary firing on record, an
\* element without a data-id attribute entered the viewport; its id parsed to
\* NaN, fetchNext was not called and lastItemIndex kept the recorded index.
C15_Witness ==
    /\ NotifiedEntry
    /\ last.entries[1].isIntersecting
    /\ last.entries[1].target = NoAttribute
    /\ ParsedDataIds[NoAttribute] = NaN
    /\ LastHandler.fetchMore
    /\ last.calls = 0
    /\ lastItemIndex # Null

\* C16: a notification with no entries is a no-op: fetchNext is not called,
\* and lastItemIndex, the ref cells and the observers are as they were.
C16_EmptyBatchIsNoOp ==
    [][(last'.op = "notify" /\ last'.entries = NoEntries)
         => /\ last'.calls = 0
            /\ UNCHANGED <<lastItemIndex, observerRefs, observers>>]_vars

\* C16, reached: a handler with fetchMore true, after a primary firing, was
\* handed an empty batch and did not call fetchNext.
C16_Witness ==
    /\ Notified
    /\ last.entries = NoEntries
    /\ LastHandler.fetchMore
    /\ lastItemIndex # Null
    /\ last.calls = 0

\* C17: the cleanup function returned by an attachment disconnects the
\* observer that this attachment created and no other one: every other
\* observer watches after the call what it watched before, and a second call
\* changes nothing.
C17_CleanupReleasesOnlyItsOwn ==
    [][last'.op = "cleanup"
         => /\ observers'[last'.observer].observed = {}
            /\ \A id \in 1..Len(observers) :
                  id # last'.observer
                    => observers'[id].observed = observers[id].observed]_vars

C19_NoLeakedObservers ==
    /\ \A id \in Watching : observerRefs[observers[id].ref] = id
    /\ Cardinality(Watching) <= 2

\* C19, reached: itemRef created an observer in its own cell, a re-render
\* collapsed the slots, and itemRef then created an observer in the cell of
\* fallbackObserver; both watch and each is stored in its cell.
C19_Witness ==
    /\ last.op = "attach"
    /\ last.handle = "itemRef"
    /\ last.observer = 2
    /\ renders > 0
    /\ itemRef.observerRef = "fallbackObserver"
    /\ observers[1].ref = "ItemObserver"
    /\ observers[2].ref = "fallbackObserver"
    /\ Watching = {1, 2}
    /\ observerRefs = [ItemObserver |-> 1, fallbackObserver |-> 2]

\* C20: what a notification does is decided by its first entry alone: the
\* calls of fetchNext and the new lastItemIndex are those of the batch cut
\* down to its first entry; when the first entry is not intersecting or its
\* id is neither itemRefIndex nor fallBackRefIndex, fetchNext is not called
\* whatever the later entries are; and a batch calls fetchNext at most once.
C20_FirstEntryDecides ==
    [][(last'.op = "notify" /\ Len(last'.entries) > 0)
         => LET cb == observers[last'.observer].callback
                entry == last'.entries[1]
                parsed == ParsedDataIds[entry.target]
                matches == \/ StrictEq(parsed, Num(cb.itemRefIndex))
                           \/ StrictEq(parsed, Num(cb.fallBackRefIndex))
                alone == fetchOnScrollCall(cb, <<entry>>, lastItemIndex)
            IN  /\ last'.calls = alone.calls
                /\ lastItemIndex' = alone.lastItemIndex
                /\ last'.calls <= 1
                /\ (~entry.isIntersecting \/ ~matches) => last'.calls = 0]_vars

\* C20, reached: with fetchMore true the first entry entered at an index
\* that is no trigger index, a later entry of the same batch entered at
\* itemRefIndex, and fetchNext was not called.
C20_Witness ==
    /\ Notified
    /\ Len(last.entries) >= 2
    /\ LastHandler.fetchMore
    /\ last.entries[1].isIntersecting
    /\ ~StrictEq(LastEntryId, Num(LastHandler.itemRefIndex))
    /\ ~StrictEq(LastEntryId, Num(LastHandler.fallBackRefIndex))
    /\ last.entries[2].isIntersecting
    /\ StrictEq(EntryId(last.entries[2]), Num(LastHandler.itemRefIndex))
    /\ last.calls = 0
    /\ lastItemIndex = Null

====
